---- MODULE Spec2Model ----
(***************************************************************************)
(* Merge-conflict auto-resolver.                                           *)
(*                                                                         *)
(* Two scripts are modelled:                                               *)
(*   "flagged" : src/unnamed/part_000 (AI assistance gated by USE_AI,      *)
(*               with the 'ours' fallback), stepped statement by statement *)
(*   "aionly"  : src/extra/resolve-conflict.js (AI-only variant)           *)
(*                                                                         *)
(* The environment (process.env, the repository's unmerged paths) is       *)
(* chosen in Init; the outcome of every external call (git subprocess,     *)
(* file read/write, HTTP request) is chosen when the call is made.         *)
(***************************************************************************)
EXTENDS Integers, Sequences, FiniteSets, TLC

\* Largest number of unmerged paths the repository holds in a run.
MaxFiles == 3

\* runCommand's null (command failed); paths are numbered from 1 and output
\* lines likewise, so <<0>> is no output of a command.
Null == <<0>>

VARIABLES
    script,          \* which script runs: "flagged" or "aionly"
    envUseAI,        \* process.env.USE_AI
    envOpenAIKey,    \* process.env.OPENAI_API_KEY
    envGithubToken,  \* process.env.GITHUB_TOKEN
    repoConflicts,   \* the repository's unmerged paths, in git's listing order
    pc,              \* position of main()
    conflictedFiles, \* main's conflictedFiles
    idx,             \* position of the for..of loop in conflictedFiles
    successComment,  \* what was appended to successComment after its header
    failureComment,  \* what was appended to failureComment after its header
    exitCode,        \* process exit status, -1 while running
    processed,       \* files whose loop body has started, in order
    threw,           \* [file, at] of every exception thrown inside the loop's try
    aiCalls,         \* files for which the completion request was sent
    writeLog,        \* [file, ok] of every fs.writeFileSync
    gitLog,          \* [cmd, file, ok] of every git subprocess, in order
    postLog          \* outcome (ok) of every comment POST

vars == <<script, envUseAI, envOpenAIKey, envGithubToken, repoConflicts, pc,
          conflictedFiles, idx, successComment, failureComment, exitCode,
          processed, threw, aiCalls, writeLog, gitLog, postLog>>

env == <<script, envUseAI, envOpenAIKey, envGithubToken, repoConflicts>>

Prefix(n) == [i \in 1..n |-> i]

\* JavaScript truthiness of an environment string (undefined and "" are falsy).
Truthy(v) == v # "unset" /\ v # ""

\* JavaScript truthiness of what runCommand returns (null and "" are falsy).
TruthyOut(out) == out # Null /\ out # <<>>

USE_AI_Truthy == Truthy(envUseAI)
\* const USE_AI = process.env.USE_AI === "true";
USE_AI == envUseAI = "true"

OPENAI_API_KEY == envOpenAIKey
GITHUB_TOKEN == envGithubToken

\* runCommand: trimmed stdout, or null when execSync throws (non-zero exit).
\* It never throws itself.
RunCommand(ok, stdout) == IF ok THEN stdout ELSE Null

\* getConflictedFiles: conflictedFiles ? conflictedFiles.split("\n") : []
GetConflictedFiles(out) == IF TruthyOut(out) THEN out ELSE <<>>

NoConflicts_Never(files) == FALSE
\* if (conflictedFiles.length === 0) return;
NoConflicts(files) == Len(files) = 0

Init ==
    /\ script \in {"flagged", "aionly"}
    /\ envUseAI \in {"true", "false", "unset"}
    /\ envOpenAIKey \in {"unset", "sk"}
    /\ envGithubToken \in {"unset", "ghp"}
    /\ repoConflicts \in {Prefix(n) : n \in 0..MaxFiles}
    /\ pc = "start"
    /\ conflictedFiles = <<>>
    /\ idx = 0
    /\ successComment = <<>>
    /\ failureComment = <<>>
    /\ exitCode = -1
    /\ processed = <<>>
    /\ threw = {}
    /\ aiCalls = <<>>
    /\ writeLog = <<>>
    /\ gitLog = <<>>
    /\ postLog = <<>>

Git(cmd, file, ok) == [cmd |-> cmd, file |-> file, ok |-> ok]

\* if (USE_AI && !OPENAI_API_KEY) process.exit(1)
MissingCredential == USE_AI /\ ~Truthy(OPENAI_API_KEY)

CheckCredentials ==
    /\ script = "flagged"
    /\ pc = "start"
    /\ IF MissingCredential
       THEN pc' = "exited" /\ exitCode' = 1
       ELSE pc' = "list" /\ UNCHANGED exitCode
    /\ UNCHANGED <<env, conflictedFiles, idx, successComment, failureComment,
                   processed, threw, aiCalls, writeLog, gitLog, postLog>>

ListConflicts ==
    /\ script = "flagged"
    /\ pc = "list"
    /\ \E ok \in BOOLEAN :
         LET files == GetConflictedFiles(RunCommand(ok, repoConflicts)) IN
         /\ conflictedFiles' = files
         /\ gitLog' = Append(gitLog, Git("diff-names", 0, ok))
         /\ IF NoConflicts(files)
            THEN pc' = "exited" /\ exitCode' = 0 /\ UNCHANGED idx
            ELSE pc' = "loop" /\ idx' = 1 /\ UNCHANGED exitCode
    /\ UNCHANGED <<env, successComment, failureComment, processed, threw,
                   aiCalls, writeLog, postLog>>

Entry(file, kind) == [file |-> file, kind |-> kind]

\* successComment += `- \`${file}\` resolved with AI.\n`
AIEntry(file) == <<Entry(file, "ai")>>

\* successComment += `<details><summary>Diff for ...`
DiffEntry(file) == <<Entry(file, "diff")>>

ErrorEntry_Dropped(file) == <<>>
\* catch (error) { failureComment += `- \`${file}\` failed due to error: ...` }
ErrorEntry(file) == <<Entry(file, "error")>>

\* The loop's catch block: the exception thrown at `at` while resolving `file`
\* is recorded against the file and the loop goes on with the next file.
CatchError(file, at) ==
    /\ threw' = threw \cup {[file |-> file, at |-> at]}
    /\ failureComment' = failureComment \o ErrorEntry(file)
    /\ pc' = "loop"
    /\ idx' = idx + 1

AIOutcomes == {"readThrows", "httpThrows", "badResponse", "empty", "text"}

\* resolveWithAI sends the request unless fs.readFileSync threw first.
RequestSent(r) == r # "readThrows"

\* resolveWithAI throws when the read or the POST throws, or when the response
\* has no choices[0].text to read.
ResolveWithAIThrows(r) == r \in {"readThrows", "httpThrows", "badResponse"}

InLoop == pc = "loop" /\ idx <= Len(conflictedFiles)

AttemptAI ==
    /\ script = "flagged"
    /\ InLoop
    /\ USE_AI
    /\ LET file == conflictedFiles[idx] IN
       /\ processed' = Append(processed, file)
       /\ \E r \in AIOutcomes :
            /\ aiCalls' = IF RequestSent(r) THEN Append(aiCalls, file) ELSE aiCalls
            /\ IF ResolveWithAIThrows(r)
               THEN CatchError(file, r)
               ELSE /\ pc' = IF r = "text" THEN "write" ELSE "manual"
                    /\ UNCHANGED <<threw, failureComment, idx>>
    /\ UNCHANGED <<env, conflictedFiles, successComment, exitCode, writeLog,
                   gitLog, postLog>>

\* fs.writeFileSync(file, aiResolvedContent); runCommand(`git add ${file}`);
\* resolved = true; successComment += ...
WriteResolved ==
    /\ script = "flagged"
    /\ pc = "write"
    /\ LET file == conflictedFiles[idx] IN
       \E w \in BOOLEAN, a \in BOOLEAN :
         /\ writeLog' = Append(writeLog, [file |-> file, ok |-> w])
         /\ IF ~w
            THEN /\ CatchError(file, "writeThrows")
                 /\ UNCHANGED <<gitLog, successComment>>
            ELSE /\ gitLog' = Append(gitLog, Git("add", file, a))
                 /\ successComment' = successComment \o AIEntry(file)
                 /\ pc' = "diff"
                 /\ UNCHANGED <<threw, failureComment, idx>>
    /\ UNCHANGED <<env, conflictedFiles, exitCode, processed, aiCalls, postLog>>

\* resolveManually: both runCommand calls return (null on a non-zero exit)
\* without throwing, so the try block always reaches `return true`.
ResolveManually(checkoutOk, addOk) == TRUE

ManualEntries_Both(file, resolved) ==
    [success |-> <<Entry(file, "ours")>>, failure |-> <<Entry(file, "manual")>>]
\* if (resolved) successComment += ... else failureComment += ...
ManualEntries(file, resolved) ==
    IF resolved
    THEN [success |-> <<Entry(file, "ours")>>, failure |-> <<>>]
    ELSE [success |-> <<>>, failure |-> <<Entry(file, "manual")>>]

\* if (!resolved) { resolved = resolveManually(file); ... }
Fallback ==
    /\ script = "flagged"
    /\ \/ pc = "manual" /\ UNCHANGED processed
       \/ InLoop /\ ~USE_AI /\ processed' = Append(processed, conflictedFiles[idx])
    /\ LET file == conflictedFiles[idx] IN
       \E co \in BOOLEAN, ad \in BOOLEAN :
         LET resolved == ResolveManually(co, ad)
             e == ManualEntries(file, resolved) IN
         /\ gitLog' = gitLog \o <<Git("checkout-ours", file, co), Git("add", file, ad)>>
         /\ successComment' = successComment \o e.success
         /\ failureComment' = failureComment \o e.failure
    /\ pc' = "diff"
    /\ UNCHANGED <<env, conflictedFiles, idx, exitCode, threw, aiCalls,
                   writeLog, postLog>>

\* getFileDiff: runCommand(`git diff --cached ${filePath}`)
GetFileDiff(ok, stdout) == RunCommand(ok, stdout)

\* const diff = getFileDiff(file); if (diff) successComment += ...
FileDiff ==
    /\ script = "flagged"
    /\ pc = "diff"
    /\ LET file == conflictedFiles[idx] IN
       \E ok \in BOOLEAN, stdout \in {<<>>, <<1>>} :
         /\ gitLog' = Append(gitLog, Git("diff-cached", file, ok))
         /\ successComment' =
              IF TruthyOut(GetFileDiff(ok, stdout))
              THEN successComment \o DiffEntry(file)
              ELSE successComment
    /\ pc' = "loop"
    /\ idx' = idx + 1
    /\ UNCHANGED <<env, conflictedFiles, failureComment, exitCode, processed,
                   threw, aiCalls, writeLog, postLog>>

ShouldCommit_Always == TRUE
\* if (successComment !== "### ... Successfully Resolved Files:\n\n")
ShouldCommit == successComment # <<>>

\* The commit decision after the loop.
CommitDecision ==
    /\ script = "flagged"
    /\ pc = "loop"
    /\ idx > Len(conflictedFiles)
    /\ IF ShouldCommit
       THEN \E ok \in BOOLEAN : gitLog' = Append(gitLog, Git("commit", 0, ok))
       ELSE UNCHANGED gitLog
    /\ pc' = "post"
    /\ UNCHANGED <<env, conflictedFiles, idx, successComment, failureComment,
                   exitCode, processed, threw, aiCalls, writeLog, postLog>>

PostCommentThrows_Uncaught(ok) == ~ok
\* postCommentToPR wraps the POST in try/catch: a failure is logged, not thrown.
PostCommentThrows(ok) == FALSE

\* await postCommentToPR(commentBody); then main returns.
PostComment ==
    /\ script = "flagged"
    /\ pc = "post"
    /\ \E ok \in BOOLEAN :
         /\ postLog' = Append(postLog, ok)
         /\ IF PostCommentThrows(ok)
            THEN pc' = "rejected" /\ UNCHANGED exitCode
            ELSE pc' = "exited" /\ exitCode' = 0
    /\ UNCHANGED <<env, conflictedFiles, idx, successComment, failureComment,
                   processed, threw, aiCalls, writeLog, gitLog>>

\* Identifiers bound in the scope of main() in src/extra/resolve-conflict.js:
\* the four requires, the five functions, and main's own locals.
AIOnlyBindings ==
    {"execSync", "fs", "path", "axios", "runCommand", "getConflictedFiles",
     "resolveWithAI", "postCommentToPR", "main", "conflictedFiles", "body",
     "file", "aiResolvedContent", "error", "process", "console"}

Bound(id) == id \in AIOnlyBindings

\* main() of the AI-only variant up to its credential check:
\* if (!OPENAI_API_KEY || !GITHUB_TOKEN) process.exit(1).
\* Reading an unbound identifier throws a ReferenceError, which rejects main();
\* || evaluates its operands left to right and stops at the first true one.
\* OPENAI_API_KEY is unbound in this script, so the statements after the check
\* (lines 97-124) are never reached.
AIOnlyMain ==
    /\ script = "aionly"
    /\ pc = "start"
    /\ CASE ~Bound("OPENAI_API_KEY") -> pc' = "rejected" /\ UNCHANGED exitCode
         [] ~Truthy(OPENAI_API_KEY) -> pc' = "exited" /\ exitCode' = 1
         [] ~Bound("GITHUB_TOKEN") -> pc' = "rejected" /\ UNCHANGED exitCode
         [] ~Truthy(GITHUB_TOKEN) -> pc' = "exited" /\ exitCode' = 1
         [] OTHER -> pc' = "list" /\ UNCHANGED exitCode
    /\ UNCHANGED <<env, conflictedFiles, idx, successComment, failureComment,
                   processed, threw, aiCalls, writeLog, gitLog, postLog>>

\* main().catch((error) => { console.error(...); process.exit(1); })
TopLevelCatch ==
    /\ pc = "rejected"
    /\ pc' = "exited"
    /\ exitCode' = 1
    /\ UNCHANGED <<env, conflictedFiles, idx, successComment, failureComment,
                   processed, threw, aiCalls, writeLog, gitLog, postLog>>

Next ==
    \/ CheckCredentials
    \/ ListConflicts
    \/ AttemptAI
    \/ WriteResolved
    \/ Fallback
    \/ FileDiff
    \/ CommitDecision
    \/ PostComment
    \/ AIOnlyMain
    \/ TopLevelCatch

Spec == Init /\ [][Next]_vars
(***************************************************************************)
(* Observations on a run of the flagged pipeline.                          *)
(***************************************************************************)
Flagged == script = "flagged"
Exited == pc = "exited"
\* The per-file loop is over: the report's two lists are final.
LoopOver == pc \in {"post", "exited"} /\ conflictedFiles # <<>>

SuccessEntries(f) ==
    {i \in DOMAIN successComment :
        successComment[i].file = f /\ successComment[i].kind # "diff"}
FailureEntries(f) == {i \in DOMAIN failureComment : failureComment[i].file = f}
SuccessFiles ==
    {successComment[i].file :
        i \in {j \in DOMAIN successComment : successComment[j].kind # "diff"}}
FailureFiles == {failureComment[i].file : i \in DOMAIN failureComment}
HasEntry(seq, e) == \E i \in DOMAIN seq : seq[i] = e
ListedFiles == {conflictedFiles[i] : i \in DOMAIN conflictedFiles}

CommitAttempts == Cardinality({i \in DOMAIN gitLog : gitLog[i].cmd = "commit"})
Commits ==
    Cardinality({i \in DOMAIN gitLog : gitLog[i].cmd = "commit" /\ gitLog[i].ok})
\* Git subprocesses that change the working tree, the index or the history.
Mutations ==
    {i \in DOMAIN gitLog : gitLog[i].cmd \in {"checkout-ours", "add", "commit"}}
\* The completion call failed: the POST threw, or its response was unreadable.
CompletionCallFailed == {"httpThrows", "badResponse"}

\* C1: with AI-assist enabled, every file whose completion call threw is then
\* resolved by the fallback (git checkout --ours, git add) and is reported as
\* a fallback success, not as a failure.
C1_FallbackOnAIFailure ==
    (Flagged /\ USE_AI /\ Exited)
        => \A t \in threw :
              t.at \in CompletionCallFailed
                 => /\ HasEntry(gitLog, Git("checkout-ours", t.file, TRUE))
                    /\ HasEntry(successComment, Entry(t.file, "ours"))
                    /\ t.file \notin FailureFiles

\* C2: once the loop is over, every conflicted path found at the start has
\* exactly one entry in the report, in the success list or in the failure
\* list, and the report has entries for no other path.
C2_ExactlyOneEntry ==
    (Flagged /\ LoopOver)
        => /\ \A f \in ListedFiles :
                Cardinality(SuccessEntries(f)) + Cardinality(FailureEntries(f)) = 1
           /\ SuccessFiles \cup FailureFiles \subseteq ListedFiles

C2_Witness ==
    /\ Flagged /\ Exited
    /\ Len(conflictedFiles) >= 2
    /\ \E i \in DOMAIN successComment : successComment[i].kind = "ai"
    /\ \E i \in DOMAIN successComment : successComment[i].kind = "ours"
    /\ failureComment # <<>>
    /\ \E i \in DOMAIN gitLog : ~gitLog[i].ok
    /\ \E i \in DOMAIN writeLog : ~writeLog[i].ok

\* C3 (as stated): after the commit decision exactly one commit exists if the
\* success list is non-empty, and none if it is empty.
C3_CommitIffSuccess ==
    (Flagged /\ LoopOver)
        => Commits = (IF SuccessFiles # {} THEN 1 ELSE 0)

\* C3 (amended): git commit is run exactly once if the success list is
\* non-empty at the end of the loop and not at all if it is empty, and never
\* before the loop is over; a commit exists only if that one command exited
\* with status zero.
C3_CommitAttemptIffSuccess ==
    Flagged
        => /\ LoopOver => CommitAttempts = (IF SuccessFiles # {} THEN 1 ELSE 0)
           /\ ~LoopOver => CommitAttempts = 0
           /\ Commits <= CommitAttempts
           /\ \A i \in DOMAIN gitLog : gitLog[i].cmd = "commit" => i = Len(gitLog)

C3_Witness ==
    /\ Flagged /\ Exited
    /\ SuccessFiles # {}
    /\ FailureFiles # {}
    /\ Commits = 1

\* C4: a file whose fallback 'git checkout --ours' or 'git add' exited
\* non-zero is reported in the failure list and not in the success list.
C4_GitFailureIsFailure ==
    (Flagged /\ LoopOver)
        => \A i \in DOMAIN gitLog :
              (/\ ~gitLog[i].ok
               /\ \/ gitLog[i].cmd = "checkout-ours"
                  \/ /\ gitLog[i].cmd = "add"
                     /\ i > 1
                     /\ gitLog[i - 1].cmd = "checkout-ours")
                 => /\ gitLog[i].file \in FailureFiles
                    /\ gitLog[i].file \notin SuccessFiles

\* C5: when USE_AI is not the string "true", no completion request is ever
\* sent and no file is written with AI content, whatever the credentials, and
\* once the loop is over every file is a fallback success or a failure.
C5_NoAIWhenDisabled ==
    (Flagged /\ envUseAI # "true")
        => /\ aiCalls = <<>>
           /\ writeLog = <<>>
           /\ \A i \in DOMAIN successComment : successComment[i].kind # "ai"
           /\ LoopOver =>
                \A f \in ListedFiles :
                    \/ HasEntry(successComment, Entry(f, "ours"))
                    \/ f \in FailureFiles

C5_Witness ==
    /\ Flagged /\ Exited
    /\ envUseAI = "false"
    /\ envOpenAIKey = "sk"
    /\ Len(conflictedFiles) >= 2
    /\ \A f \in ListedFiles : HasEntry(successComment, Entry(f, "ours"))
    /\ failureComment = <<>>
    /\ Commits = 1

\* C6: when the conflict detector returned an empty list (nothing unmerged,
\* or the listing command failed), the run has ended with exit code 0 and the
\* listing is all it ran: no file write, no git checkout/add/commit, no
\* completion request, no comment post.
C6_NoConflictsNoEffect ==
    (Flagged /\ gitLog # <<>> /\ conflictedFiles = <<>>)
        => /\ Exited
           /\ exitCode = 0
           /\ gitLog = <<Git("diff-names", 0, gitLog[1].ok)>>
           /\ writeLog = <<>>
           /\ aiCalls = <<>>
           /\ postLog = <<>>
           /\ successComment = <<>>
           /\ failureComment = <<>>

C6_Witness ==
    /\ Flagged /\ Exited
    /\ repoConflicts # <<>>
    /\ gitLog = <<Git("diff-names", 0, FALSE)>>
    /\ conflictedFiles = <<>>
    /\ exitCode = 0

\* C7: with AI-assist enabled and the completion credential or the
\* review-platform credential missing, the run exits non-zero before any
\* listing, write, git command, completion request or comment post.
C7_MissingCredentialFatal ==
    (Flagged /\ envUseAI = "true"
        /\ (envOpenAIKey = "unset" \/ envGithubToken = "unset"))
        => /\ pc \in {"start", "exited"}
           /\ Exited => exitCode # 0
           /\ gitLog = <<>>
           /\ writeLog = <<>>
           /\ aiCalls = <<>>
           /\ postLog = <<>>

C9_PostFailureBestEffort ==
    /\ [](Flagged =>
            /\ Len(postLog) <= 1
            /\ (postLog = <<FALSE>>) => (Exited /\ exitCode = 0))
    /\ [][(Flagged /\ (pc = "post" \/ postLog # <<>>))
            => UNCHANGED <<gitLog, writeLog, aiCalls, successComment,
                           failureComment, processed>>]_vars

C9_Witness ==
    /\ Flagged /\ Exited
    /\ postLog = <<FALSE>>
    /\ Commits = 1
    /\ exitCode = 0

\* C10: in the AI-only variant with both credentials set and at least one
\* conflicted file, the run ends with exit code 0 after one report post, with
\* the commit attempted and one line per file in the comment body.
C10_AIOnlyCompletes ==
    (script = "aionly" /\ Truthy(envOpenAIKey) /\ Truthy(envGithubToken)
        /\ repoConflicts # <<>> /\ Exited)
        => /\ exitCode = 0
           /\ Len(postLog) = 1
           /\ CommitAttempts = 1
====
